---- MODULE Spec2Model ----
(***************************************************************************)
(* The Connection Analysis Engine (analyzeConnections) as a state machine. *)
(*                                                                         *)
(* One run of analyzeConnections is one behaviour: Init fixes the caller's *)
(* input map and config, and every later step is one iteration of one of   *)
(* the engine's loops, in the order the code runs them.                    *)
(*                                                                         *)
(* Strings are sequences of character codes, so that Array.sort's          *)
(* lexicographic order and join('-') are computed, not assumed.  JS Maps   *)
(* and Sets are sequences in insertion order.  Link weights are counted in *)
(* halves (the code's 0.5 is 1 here, its 5 is 10).                         *)
(***************************************************************************)
EXTENDS Integers, Sequences, FiniteSets, TLC

VARIABLES
    inputAddresses,   \* Object.keys(inputs): the monitored entities, in order
    inputs,           \* address -> sequence of ParsedTxInfo
    config,           \* AnalysisConfig
    pc,               \* "init" | "index" | "time" | "hub" | "prune" | "done"
    cursor,           \* position in the current phase's loop
    nodes,            \* Map<string, Node>
    links,            \* Map<string, Link>
    connectedPairs,   \* Map<string, pair evidence>
    interactionLog,   \* Map<counterparty, Array<{input, time, tx}>>
    uniqueCounterpartiesSet,
    totalTx,
    linkCalls,        \* history: every addLink call so far, in call order
    pairCalls,        \* history: every recordPair call so far, in call order
    result,           \* the returned {graph, summary}; meaningful once pc = "done"
    app,              \* the App component: the state hooks and where handleAnalyze is
    fetch             \* the fetchTransactionHistory call in progress

vars == <<inputAddresses, inputs, config, pc, cursor, nodes, links, connectedPairs,
          interactionLog, uniqueCounterpartiesSet, totalTx, linkCalls, pairCalls,
          result, app, fetch>>

-----------------------------------------------------------------------------
(* Strings *)

Dash == <<45>>
Dots == <<46, 46, 46>>

Min(a, b) == IF a < b THEN a ELSE b
Max(a, b) == IF a < b THEN b ELSE a
Abs(n) == IF n < 0 THEN -n ELSE n

\* s.slice(0, n)
SliceHead(s, n) == SubSeq(s, 1, Min(n, Len(s)))
\* s.slice(-n)
SliceTail(s, n) == SubSeq(s, Max(1, Len(s) - n + 1), Len(s))

\* the default comparison of Array.prototype.sort: code units, left to right
RECURSIVE LexLess(_, _)
LexLess(a, b) ==
    IF b = <<>> THEN FALSE
    ELSE IF a = <<>> THEN TRUE
    ELSE IF Head(a) # Head(b) THEN Head(a) < Head(b)
    ELSE LexLess(Tail(a), Tail(b))

\* [a, b].sort()
SortPair(a, b) == IF LexLess(b, a) THEN <<b, a>> ELSE <<a, b>>

\* [a, b].sort().join('-')
PairKey(a, b) == SortPair(a, b)[1] \o Dash \o SortPair(a, b)[2]

\* `${id.slice(0, 4)}...${id.slice(-4)}`
Label(id) == SliceHead(id, 4) \o Dots \o SliceTail(id, 4)

-----------------------------------------------------------------------------
(* JS Map and Set, in insertion order *)

MapHas(m, key) == \E i \in DOMAIN m : m[i].key = key
MapIdx(m, key) == CHOOSE i \in DOMAIN m : m[i].key = key
MapGet(m, key) == m[MapIdx(m, key)].val
MapSet(m, key, val) ==
    IF MapHas(m, key)
    THEN [m EXCEPT ![MapIdx(m, key)].val = val]
    ELSE Append(m, [key |-> key, val |-> val])

SeqSet(s) == {s[i] : i \in DOMAIN s}
Includes(s, x) == \E i \in DOMAIN s : s[i] = x

\* new Set(xs), as the sequence of first occurrences
RECURSIVE Distinct(_)
Distinct(xs) ==
    IF xs = <<>> THEN <<>>
    ELSE LET d == Distinct(SubSeq(xs, 1, Len(xs) - 1))
             x == xs[Len(xs)]
         IN  IF Includes(d, x) THEN d ELSE Append(d, x)

-----------------------------------------------------------------------------
(* ConnectionType, node groups, and the weights the engine uses *)

DIRECT == "DIRECT"
SHARED_COUNTERPARTY == "SHARED_COUNTERPARTY"
SHARED_PROGRAM == "SHARED_PROGRAM"
MIDDLEMAN == "MIDDLEMAN"
TIME_PROXIMATE == "TIME_PROXIMATE"
ConnectionType == {DIRECT, SHARED_COUNTERPARTY, SHARED_PROGRAM, MIDDLEMAN, TIME_PROXIMATE}

\* the types that overwrite a stored link type
StrongTypes == {DIRECT, MIDDLEMAN}

\* link weights, in halves
Halves(n) == 2 * n
DirectWeight == Halves(5)
SharedWeight == 1
TimeWeight == Halves(2)
MiddlemanWeight == Halves(3)

\* pair evidence scores
DirectScore == 50
TimeScore == 30
MiddlemanScore == 20
SharedScore == 10

InputVal == 25
MiddlemanVal == 15
BaseVal == 5
MiddlemanTraffic == 5

-----------------------------------------------------------------------------
(* The registry: addLink, addNode, recordPair.  r is the engine's state:  *)
(* [nodes, links, connectedPairs, interactionLog,                         *)
(*  uniqueCounterpartiesSet, totalTx, linkCalls, pairCalls]               *)

\* UpgradeLinkType, had the type been overwritten by every observation
UpgradeLinkTypeAlways(stored, type) == type

\* the stored type after an observation of type `type` on an existing link
UpgradeLinkType(stored, type) == IF type \in StrongTypes THEN type ELSE stored

\* addLink, had an upgrade of the type started the weight over
addLinkRestarting(r, source, target, type, weight, details) ==
    LET call == [source |-> source, target |-> target, type |-> type, weight |-> weight]
        logged == [r EXCEPT !.linkCalls = Append(@, call)]
        linkId == PairKey(source, target)
    IN  IF source = target THEN logged
        ELSE IF MapHas(r.links, linkId)
        THEN LET l == MapGet(r.links, linkId)
             IN  [logged EXCEPT !.links = MapSet(@, linkId,
                     [l EXCEPT !.value = IF type \in StrongTypes THEN weight ELSE @ + weight,
                               !.type = UpgradeLinkType(@, type)])]
        ELSE [logged EXCEPT !.links = MapSet(@, linkId,
                 [source |-> source, target |-> target, type |-> type,
                  value |-> weight, details |-> details])]

addLink(r, source, target, type, weight, details) ==
    LET call == [source |-> source, target |-> target, type |-> type, weight |-> weight]
        logged == [r EXCEPT !.linkCalls = Append(@, call)]
        linkId == PairKey(source, target)
    IN  IF source = target THEN logged
        ELSE IF MapHas(r.links, linkId)
        THEN LET l == MapGet(r.links, linkId)
             IN  [logged EXCEPT !.links = MapSet(@, linkId,
                     [l EXCEPT !.value = @ + weight,
                               !.type = UpgradeLinkType(@, type)])]
        ELSE [logged EXCEPT !.links = MapSet(@, linkId,
                 [source |-> source, target |-> target, type |-> type,
                  value |-> weight, details |-> details])]

\* the stored group of an existing node after addNode(id, group)
UpgradeNodeGroup(stored, group) == IF group = "middleman" THEN "middleman" ELSE stored

addNode(r, id, group) ==
    IF ~MapHas(r.nodes, id)
    THEN [r EXCEPT !.nodes = MapSet(@, id,
             [id |-> id, group |-> group, label |-> Label(id),
              val |-> IF group = "middleman" THEN MiddlemanVal ELSE BaseVal])]
    ELSE LET n == MapGet(r.nodes, id)
         IN  [r EXCEPT !.nodes = MapSet(@, id,
                 [n EXCEPT !.val = @ + 1,
                           !.group = UpgradeNodeGroup(@, group)])]

\* Stronger, had the comparison been <=
StrongerOrEqual(stored, score) == stored.score <= score

\* whether recordPair overwrites the stored record with one of score `score`
Stronger(stored, score) == stored.score < score

recordPair(r, addrA, addrB, reason, score, type) ==
    LET pairKey == PairKey(addrA, addrB)
        call == [addressA |-> addrA, addressB |-> addrB, reason |-> reason,
                 score |-> score, type |-> type]
        logged == [r EXCEPT !.pairCalls = Append(@, call)]
    IN  IF ~MapHas(r.connectedPairs, pairKey)
           \/ Stronger(MapGet(r.connectedPairs, pairKey), score)
        THEN [logged EXCEPT !.connectedPairs = MapSet(@, pairKey, call)]
        ELSE logged

Reason(text, ref, delta) == [text |-> text, ref |-> ref, delta |-> delta]

-----------------------------------------------------------------------------
(* 1. Initialize Input Nodes *)

RECURSIVE SumLen(_, _)
SumLen(order, inp) ==
    IF order = <<>> THEN 0
    ELSE Len(inp[Head(order)]) + SumLen(Tail(order), inp)

InputNode(addr) == [id |-> addr, group |-> "input", label |-> Label(addr), val |-> InputVal]

RECURSIVE SetInputNodes(_, _)
SetInputNodes(m, order) ==
    IF order = <<>> THEN m
    ELSE SetInputNodes(MapSet(m, Head(order), InputNode(Head(order))), Tail(order))

Fresh ==
    [nodes |-> <<>>, links |-> <<>>, connectedPairs |-> <<>>, interactionLog |-> <<>>,
     uniqueCounterpartiesSet |-> {}, totalTx |-> 0, linkCalls |-> <<>>, pairCalls |-> <<>>]

InitializeInputNodes(order, inp) ==
    [Fresh EXCEPT !.nodes = SetInputNodes(<<>>, order), !.totalTx = SumLen(order, inp)]

-----------------------------------------------------------------------------
(* 2. Process Data: the nested forEach loops, flattened in visiting order *)

SystemProgram == <<49, 49, 49, 49>>
IGNORED_PROGRAMS == {SystemProgram}

\* what one transaction makes the loops visit: its recipients, then (when
\* programs are included) its program ids
\* TxItems, had the program ids been visited whatever the config says
TxItemsWithPrograms(sourceAddr, tx, cfg) ==
    [i \in 1..Len(tx.recipients) |->
        [kind |-> "recipient", sourceAddr |-> sourceAddr, target |-> tx.recipients[i],
         tx |-> tx]]
    \o [i \in 1..Len(tx.programIds) |->
           [kind |-> "program", sourceAddr |-> sourceAddr,
            target |-> tx.programIds[i], tx |-> tx]]

TxItems(sourceAddr, tx, cfg) ==
    [i \in 1..Len(tx.recipients) |->
        [kind |-> "recipient", sourceAddr |-> sourceAddr, target |-> tx.recipients[i],
         tx |-> tx]]
    \o (IF cfg.includePrograms
        THEN [i \in 1..Len(tx.programIds) |->
                 [kind |-> "program", sourceAddr |-> sourceAddr,
                  target |-> tx.programIds[i], tx |-> tx]]
        ELSE <<>>)

RECURSIVE TxsItems(_, _, _)
TxsItems(sourceAddr, txs, cfg) ==
    IF txs = <<>> THEN <<>>
    ELSE TxItems(sourceAddr, Head(txs), cfg) \o TxsItems(sourceAddr, Tail(txs), cfg)

RECURSIVE Schedule(_, _, _)
Schedule(order, inp, cfg) ==
    IF order = <<>> THEN <<>>
    ELSE TxsItems(Head(order), inp[Head(order)], cfg) \o Schedule(Tail(order), inp, cfg)

\* DirectTransferStep, had the link been given the default weight of addLink
DirectTransferDefaultWeight(r, item) ==
    recordPair(
        addLink(r, item.sourceAddr, item.target, DIRECT, Halves(1), "Direct Transfer"),
        item.sourceAddr, item.target,
        Reason("Direct transfer in tx", SliceHead(item.tx.signature, 8), 0),
        DirectScore, DIRECT)

\* 2.1, recipient is a monitored entity
DirectTransferStep(r, item) ==
    recordPair(
        addLink(r, item.sourceAddr, item.target, DIRECT, DirectWeight, "Direct Transfer"),
        item.sourceAddr, item.target,
        Reason("Direct transfer in tx", SliceHead(item.tx.signature, 8), 0),
        DirectScore, DIRECT)

LogInteraction(log, recipient, entry) ==
    IF MapHas(log, recipient)
    THEN MapSet(log, recipient, Append(MapGet(log, recipient), entry))
    ELSE MapSet(log, recipient, <<entry>>)

\* TrackCounterpartyStep, had indexing not linked the entity to the recipient
TrackCounterpartyStepUnlinked(r, item) ==
    LET r1 == [r EXCEPT !.uniqueCounterpartiesSet = @ \cup {item.target}]
        r2 == addNode(r1, item.target, "counterparty")
    IN  [r2 EXCEPT !.interactionLog = LogInteraction(@, item.target,
            [input |-> item.sourceAddr, time |-> item.tx.blockTime,
             tx |-> item.tx.signature])]

\* 2.1, recipient is not monitored
TrackCounterpartyStep(r, item) ==
    LET r1 == [r EXCEPT !.uniqueCounterpartiesSet = @ \cup {item.target}]
        r2 == addNode(r1, item.target, "counterparty")
        r3 == addLink(r2, item.sourceAddr, item.target, SHARED_COUNTERPARTY, SharedWeight, "")
    IN  [r3 EXCEPT !.interactionLog = LogInteraction(@, item.target,
            [input |-> item.sourceAddr, time |-> item.tx.blockTime,
             tx |-> item.tx.signature])]

\* SharedProgramStep, had the program been logged as an interaction
SharedProgramStepLogged(r, item) ==
    [addLink(addNode(r, item.target, "program"),
             item.sourceAddr, item.target, SHARED_PROGRAM, SharedWeight, "")
        EXCEPT !.interactionLog = LogInteraction(@, item.target,
                   [input |-> item.sourceAddr, time |-> item.tx.blockTime,
                    tx |-> item.tx.signature])]

\* 2.2
SharedProgramStep(r, item) ==
    addLink(addNode(r, item.target, "program"),
            item.sourceAddr, item.target, SHARED_PROGRAM, SharedWeight, "")

IsDirect(order, item) == item.kind = "recipient" /\ Includes(order, item.target)
IsCounterparty(order, item) == item.kind = "recipient" /\ ~Includes(order, item.target)
IsProgram(item) == item.kind = "program" /\ item.target \notin IGNORED_PROGRAMS
IsIgnoredProgram(item) == item.kind = "program" /\ item.target \in IGNORED_PROGRAMS

IndexStep(r, order, item) ==
    IF IsDirect(order, item) THEN DirectTransferStep(r, item)
    ELSE IF IsCounterparty(order, item) THEN TrackCounterpartyStep(r, item)
    ELSE IF IsProgram(item) THEN SharedProgramStep(r, item)
    ELSE r

-----------------------------------------------------------------------------
(* 3.1 Time-Proximate Transactions *)

\* interactions.sort((a, b) => a.time - b.time): stable, ascending
RECURSIVE InsertByTime(_, _)
InsertByTime(sorted, x) ==
    IF sorted = <<>> THEN <<x>>
    ELSE IF sorted[Len(sorted)].time - x.time <= 0 THEN Append(sorted, x)
    ELSE Append(InsertByTime(SubSeq(sorted, 1, Len(sorted) - 1), x), sorted[Len(sorted)])

RECURSIVE SortByTime(_)
SortByTime(xs) ==
    IF xs = <<>> THEN <<>>
    ELSE InsertByTime(SortByTime(SubSeq(xs, 1, Len(xs) - 1)), xs[Len(xs)])

DistinctInputs(interactions) ==
    Distinct([i \in 1..Len(interactions) |-> interactions[i].input])

\* the (i, j) the two for loops visit, in order
RECURSIVE IndexPairs(_, _, _)
IndexPairs(i, j, n) ==
    IF i > n THEN <<>>
    ELSE IF j > n THEN IndexPairs(i + 1, i + 2, n)
    ELSE <<(<<i, j>>)>> \o IndexPairs(i, j + 1, n)

\* WithinWindow, had the comparison been strict
WithinWindowStrict(timeDiff, cfg) == timeDiff < cfg.timeWindowSeconds

WithinWindow(timeDiff, cfg) == timeDiff <= cfg.timeWindowSeconds

\* the body of the inner loop for one (a, b)
TimePairStep(r, counterparty, a, b, cfg) ==
    LET timeDiff == Abs(a.time - b.time)
    IN  IF a.input = b.input THEN r
        ELSE IF WithinWindow(timeDiff, cfg)
        THEN recordPair(
                 addLink(addLink(r, a.input, counterparty, TIME_PROXIMATE, TimeWeight, ""),
                         b.input, counterparty, TIME_PROXIMATE, TimeWeight, ""),
                 a.input, b.input,
                 Reason("Interacted with same entity within", SliceHead(counterparty, 4),
                        timeDiff),
                 TimeScore, TIME_PROXIMATE)
        ELSE r

RECURSIVE TimePairs(_, _, _, _, _)
TimePairs(r, counterparty, interactions, ps, cfg) ==
    IF ps = <<>> THEN r
    ELSE TimePairs(
             TimePairStep(r, counterparty, interactions[Head(ps)[1]],
                          interactions[Head(ps)[2]], cfg),
             counterparty, interactions, Tail(ps), cfg)

\* what the pass leaves in the log for a counterparty it examines: the array,
\* sorted in place
SortedInPlace(interactions) == SortByTime(interactions)

\* the callback of interactionLog.forEach for the i-th counterparty
TimeProximateStep(r, i, cfg) ==
    LET counterparty == r.interactionLog[i].key
        interactions == r.interactionLog[i].val
    IN  IF Len(DistinctInputs(interactions)) < 2 THEN r
        ELSE LET sorted == SortedInPlace(interactions)
                 r1 == [r EXCEPT !.interactionLog[i].val = sorted]
             IN  TimePairs(r1, counterparty, sorted, IndexPairs(1, 2, Len(sorted)), cfg)

-----------------------------------------------------------------------------
(* 3.2 Middleman Detection *)

RECURSIVE MiddlemanLinks(_, _, _)
MiddlemanLinks(r, ins, entity) ==
    IF ins = <<>> THEN r
    ELSE MiddlemanLinks(addLink(r, Head(ins), entity, MIDDLEMAN, MiddlemanWeight, ""),
                        Tail(ins), entity)

\* IsHub, had the traffic not been looked at
IsHubByInputsOnly(distinctInputs, interactions) == Len(distinctInputs) > 2

\* IsHub, had the test on the distinct inputs been > 3
IsHubAboveThree(distinctInputs, interactions) ==
    Len(distinctInputs) > 3 \/ Len(interactions) > MiddlemanTraffic

IsHub(distinctInputs, interactions) ==
    Len(distinctInputs) > 2 \/ Len(interactions) > MiddlemanTraffic

\* the callback of interactionLog.forEach for the i-th entity
MiddlemanStep(r, i) ==
    LET entity == r.interactionLog[i].key
        interactions == r.interactionLog[i].val
        distinctInputs == DistinctInputs(interactions)
    IN  IF Len(distinctInputs) >= 2
        THEN IF IsHub(distinctInputs, interactions)
             THEN recordPair(
                      MiddlemanLinks(addNode(r, entity, "middleman"), distinctInputs, entity),
                      distinctInputs[1], distinctInputs[2],
                      Reason("Connected via high-traffic hub", SliceHead(entity, 4), 0),
                      MiddlemanScore, MIDDLEMAN)
             ELSE recordPair(r, distinctInputs[1], distinctInputs[2],
                      Reason("Shared counterparty:", SliceHead(entity, 4), 0),
                      SharedScore, SHARED_COUNTERPARTY)
        ELSE r

-----------------------------------------------------------------------------
(* 4. Graph Pruning, and the returned summary *)

\* isRelevant, had one interaction been enough
isRelevantOnce(r, id) == MapHas(r.interactionLog, id)

isRelevant(r, id) ==
    /\ MapHas(r.interactionLog, id)
    /\ Len(DistinctInputs(MapGet(r.interactionLog, id))) >= 2

IsProgramNode(r, id) == MapHas(r.nodes, id) /\ MapGet(r.nodes, id).group = "program"

\* whether links.forEach pushes this link to finalLinks
KeepLink(r, order, link) ==
    \/ Includes(order, link.source) /\ Includes(order, link.target)
    \/ LET other == IF Includes(order, link.source) THEN link.target ELSE link.source
       IN  isRelevant(r, other) \/ IsProgramNode(r, other)

MapValues(m) == [i \in 1..Len(m) |-> m[i].val]

finalLinks(r, order) ==
    LET Kept(link) == KeepLink(r, order, link)
    IN  SelectSeq(MapValues(r.links), Kept)

\* InitialRelevant, had relevantNodes started empty
InitialRelevantEmpty(order) == {}

\* new Set(inputAddresses), before any link is examined
InitialRelevant(order) == SeqSet(order)

\* relevantNodes, had a kept link added its source only
relevantNodesOfSources(r, order) ==
    InitialRelevant(order) \cup {l.source : l \in SeqSet(finalLinks(r, order))}

relevantNodes(r, order) ==
    InitialRelevant(order)
    \cup {l.source : l \in SeqSet(finalLinks(r, order))}
    \cup {l.target : l \in SeqSet(finalLinks(r, order))}

finalNodes(r, order) ==
    LET Kept(n) == n.id \in relevantNodes(r, order)
    IN  SelectSeq(MapValues(r.nodes), Kept)

\* pairs.sort((a, b) => b.score - a.score): stable, descending
RECURSIVE InsertByScore(_, _)
InsertByScore(sorted, x) ==
    IF sorted = <<>> THEN <<x>>
    ELSE IF x.score - sorted[Len(sorted)].score <= 0 THEN Append(sorted, x)
    ELSE Append(InsertByScore(SubSeq(sorted, 1, Len(sorted) - 1), x), sorted[Len(sorted)])

RECURSIVE SortByScore(_)
SortByScore(xs) ==
    IF xs = <<>> THEN <<>>
    ELSE InsertByScore(SortByScore(SubSeq(xs, 1, Len(xs) - 1)), xs[Len(xs)])

\* the switch of calculateConfidence
TypeWeight(type) ==
    CASE type = DIRECT -> 40
      [] type = MIDDLEMAN -> 30
      [] type = TIME_PROXIMATE -> 20
      [] type = SHARED_COUNTERPARTY -> 10
      [] OTHER -> 5

RECURSIVE TotalScore(_)
TotalScore(pairs) ==
    IF pairs = <<>> THEN 0
    ELSE TypeWeight(Head(pairs).type) + TotalScore(Tail(pairs))

ConfidenceCap == 100

\* calculateConfidence, had the total not been capped
calculateConfidenceUncapped(pairs) ==
    IF Len(pairs) = 0 THEN 0 ELSE TotalScore(pairs)

\* Math.round leaves the integer total as it is
calculateConfidence(pairs) ==
    IF Len(pairs) = 0 THEN 0 ELSE Min(TotalScore(pairs), ConfidenceCap)

Return(r, order) ==
    LET summaryPairs == SortByScore(MapValues(r.connectedPairs))
    IN  [graph |-> [nodes |-> finalNodes(r, order), links |-> finalLinks(r, order)],
         summary |->
            [connectedPairs |-> summaryPairs,
             totalTransactionsScanned |-> r.totalTx,
             uniqueCounterparties |-> Cardinality(r.uniqueCounterpartiesSet),
             confidenceScore |-> calculateConfidence(summaryPairs)]]

-----------------------------------------------------------------------------
(* analyzeConnections as a function of its arguments: the same steps, folded *)

RECURSIVE IndexAll(_, _, _)
IndexAll(r, order, items) ==
    IF items = <<>> THEN r
    ELSE IndexAll(IndexStep(r, order, Head(items)), order, Tail(items))

RECURSIVE TimeAll(_, _, _)
TimeAll(r, i, cfg) ==
    IF i > Len(r.interactionLog) THEN r
    ELSE TimeAll(TimeProximateStep(r, i, cfg), i + 1, cfg)

RECURSIVE MiddlemanAll(_, _)
MiddlemanAll(r, i) ==
    IF i > Len(r.interactionLog) THEN r
    ELSE MiddlemanAll(MiddlemanStep(r, i), i + 1)

Registry(order, inp, cfg) ==
    MiddlemanAll(
        TimeAll(
            IndexAll(InitializeInputNodes(order, inp), order, Schedule(order, inp, cfg)),
            1, cfg),
        1)

analyzeConnections(order, inp, cfg) == Return(Registry(order, inp, cfg), order)

-----------------------------------------------------------------------------
(* The inputs of one run *)

A == <<65>>
B == <<66>>
C == <<67>>
X == <<88>>
Y == <<89>>

\* block times: unknown (0), ten seconds later, six years later
Times == {0, 10, 189216000}

\* the most transactions one run is given, over all monitored entities
MaxTotalTx == 3

Orders == {<<A, B>>, <<B, A>>, <<C, A, B>>}

Configs == [maxTransactions : {50}, timeWindowSeconds : {60}, includePrograms : BOOLEAN]

Body(blockTime, recipients, programIds) ==
    [blockTime |-> blockTime, recipients |-> recipients, programIds |-> programIds]

\* what a fetched transaction may hold, apart from its signature and sender:
\* one recipient (the monitored B, or the external X or Y), or the programs
\* of a transaction that ran the system program, Y and B
Bodies ==
    {Body(0, <<B>>, <<>>)}
    \cup {Body(t, <<X>>, <<>>) : t \in Times}
    \cup {Body(0, <<Y>>, <<>>)}
    \cup {Body(0, <<>>, <<SystemProgram, Y, B>>)}

\* an account that is neither monitored nor paid: the signer of a transaction
\* that pays the entity in whose history it is found
Z == <<90>>

\* the i-th record of addr's history; parseTransaction leaves the signer out
\* of the recipients, so a record that has addr among them was signed by
\* someone else
ParsedTxInfo(addr, i, body) ==
    [signature |-> addr \o <<48 + i>>, blockTime |-> body.blockTime,
     sender |-> IF Includes(body.recipients, addr) THEN Z ELSE addr,
     recipients |-> body.recipients, programIds |-> body.programIds]

History(addr, bodies) == [i \in 1..Len(bodies) |-> ParsedTxInfo(addr, i, bodies[i])]

\* the App component and the provider, while only the engine is run
NoApp == [at |-> "engine"]
NoFetch == [status |-> "idle"]

Position(order, addr) == CHOOSE i \in 1..Len(order) : order[i] = addr

InitWith(orders, bodies, maxTotal, configs) ==
    /\ inputAddresses \in orders
    /\ config \in configs
    /\ \E n1 \in 0..maxTotal : \E n2 \in 0..(maxTotal - n1) :
       \E n3 \in 0..(IF Len(inputAddresses) > 2 THEN maxTotal - n1 - n2 ELSE 0) :
       \E b1 \in [1..n1 -> bodies], b2 \in [1..n2 -> bodies], b3 \in [1..n3 -> bodies] :
          inputs = [addr \in SeqSet(inputAddresses) |->
                       History(addr, <<b1, b2, b3>>[Position(inputAddresses, addr)])]
    /\ pc = "init"
    /\ cursor = 1
    /\ nodes = Fresh.nodes
    /\ links = Fresh.links
    /\ connectedPairs = Fresh.connectedPairs
    /\ interactionLog = Fresh.interactionLog
    /\ uniqueCounterpartiesSet = Fresh.uniqueCounterpartiesSet
    /\ totalTx = Fresh.totalTx
    /\ linkCalls = Fresh.linkCalls
    /\ pairCalls = Fresh.pairCalls
    /\ result = Return(Fresh, <<>>)
    /\ app = NoApp
    /\ fetch = NoFetch

Init == InitWith(Orders, Bodies, MaxTotalTx, Configs)

-----------------------------------------------------------------------------
(* The run *)

Eng ==
    [nodes |-> nodes, links |-> links, connectedPairs |-> connectedPairs,
     interactionLog |-> interactionLog,
     uniqueCounterpartiesSet |-> uniqueCounterpartiesSet, totalTx |-> totalTx,
     linkCalls |-> linkCalls, pairCalls |-> pairCalls]

Items == Schedule(inputAddresses, inputs, config)

\* where control is after the loop of phase p has reached position c, given
\* the log the later loops will iterate
RECURSIVE After(_, _, _)
After(p, c, log) ==
    IF p = "index" THEN (IF c > Len(Items) THEN After("time", 1, log) ELSE <<p, c>>)
    ELSE IF p = "time" THEN (IF c > Len(log) THEN After("hub", 1, log) ELSE <<p, c>>)
    ELSE IF p = "hub" THEN (IF c > Len(log) THEN <<"prune", 1>> ELSE <<p, c>>)
    ELSE <<p, c>>

Becomes(r, p, c) ==
    /\ nodes' = r.nodes
    /\ links' = r.links
    /\ connectedPairs' = r.connectedPairs
    /\ interactionLog' = r.interactionLog
    /\ uniqueCounterpartiesSet' = r.uniqueCounterpartiesSet
    /\ totalTx' = r.totalTx
    /\ linkCalls' = r.linkCalls
    /\ pairCalls' = r.pairCalls
    /\ pc' = After(p, c, r.interactionLog)[1]
    /\ cursor' = After(p, c, r.interactionLog)[2]
    /\ UNCHANGED <<inputAddresses, inputs, config, result, app, fetch>>

InitInputNodes ==
    /\ pc = "init"
    /\ Becomes(InitializeInputNodes(inputAddresses, inputs), "index", 1)

DirectTransfer ==
    /\ pc = "index"
    /\ IsDirect(inputAddresses, Items[cursor])
    /\ Becomes(DirectTransferStep(Eng, Items[cursor]), "index", cursor + 1)

TrackCounterparty ==
    /\ pc = "index"
    /\ IsCounterparty(inputAddresses, Items[cursor])
    /\ Becomes(TrackCounterpartyStep(Eng, Items[cursor]), "index", cursor + 1)

SharedProgram ==
    /\ pc = "index"
    /\ IsProgram(Items[cursor])
    /\ Becomes(SharedProgramStep(Eng, Items[cursor]), "index", cursor + 1)

IgnoredProgram ==
    /\ pc = "index"
    /\ IsIgnoredProgram(Items[cursor])
    /\ Becomes(Eng, "index", cursor + 1)

TimeProximate ==
    /\ pc = "time"
    /\ Becomes(TimeProximateStep(Eng, cursor, config), "time", cursor + 1)

MiddlemanDetection ==
    /\ pc = "hub"
    /\ Becomes(MiddlemanStep(Eng, cursor), "hub", cursor + 1)

GraphPruning ==
    /\ pc = "prune"
    /\ result' = Return(Eng, inputAddresses)
    /\ pc' = "done"
    /\ UNCHANGED <<inputAddresses, inputs, config, cursor, nodes, links, connectedPairs,
                   interactionLog, uniqueCounterpartiesSet, totalTx, linkCalls, pairCalls,
                   app, fetch>>

Next ==
    \/ InitInputNodes
    \/ DirectTransfer
    \/ TrackCounterparty
    \/ SharedProgram
    \/ IgnoredProgram
    \/ TimeProximate
    \/ MiddlemanDetection
    \/ GraphPruning

Spec == Init /\ [][Next]_vars

-----------------------------------------------------------------------------
(* The same run on deeper histories over fewer ids: every external id is Y, *)
(* which transactions name both as a recipient and as a program             *)

MaxOverlapTx == 4

OverlapBodies ==
    {Body(0, <<B>>, <<>>), Body(0, <<Y>>, <<>>), Body(0, <<>>, <<SystemProgram, Y, B>>)}

OverlapConfigs == {cfg \in Configs : cfg.includePrograms}

InitOverlap == InitWith({<<C, A, B>>}, OverlapBodies, MaxOverlapTx, OverlapConfigs)

SpecOverlap == InitOverlap /\ [][Next]_vars

-----------------------------------------------------------------------------
(* The same run on block times at, just over and far over the window: the  *)
(* external X is paid at 0 s, 300 s, 301 s or six years, under a window of *)
(* 60 s or of 300 s                                                        *)

MaxWindowTx == 3

WindowTimes == {0, 300, 301, 189216000}

WindowBodies ==
    {Body(t, <<X>>, <<>>) : t \in WindowTimes}
    \cup {Body(0, <<B>>, <<SystemProgram, Y>>)}

WindowConfigs == [maxTransactions : {50}, timeWindowSeconds : {60, 300}, includePrograms : {TRUE}]

InitWindow == InitWith({<<A, B>>, <<C, A, B>>}, WindowBodies, MaxWindowTx, WindowConfigs)

SpecWindow == InitWindow /\ [][Next]_vars

-----------------------------------------------------------------------------
(* The same run on records any of which may lack its sender: the engine is *)
(* handed the records as they are, and a record's sender is a field like   *)
(* any other                                                               *)

MaxMalformedTx == 3

\* the sender of a record that has none
Missing == <<>>

MalformedBodies ==
    {Body(0, <<B>>, <<>>), Body(0, <<X>>, <<>>), Body(0, <<>>, <<SystemProgram, Y>>)}

\* the history, with the sender taken off the records that `lacks` marks
WithoutSenders(txs, lacks) ==
    [i \in DOMAIN txs |-> IF lacks[i] THEN [txs[i] EXCEPT !.sender = Missing] ELSE txs[i]]

InitMalformed ==
    /\ inputAddresses = <<A, B>>
    /\ config \in OverlapConfigs
    /\ \E n1 \in 0..MaxMalformedTx : \E n2 \in 0..(MaxMalformedTx - n1) :
       \E b1 \in [1..n1 -> MalformedBodies], b2 \in [1..n2 -> MalformedBodies] :
       \E l1 \in [1..n1 -> BOOLEAN], l2 \in [1..n2 -> BOOLEAN] :
          inputs = (A :> WithoutSenders(History(A, b1), l1))
                   @@ (B :> WithoutSenders(History(B, b2), l2))
    /\ pc = "init"
    /\ cursor = 1
    /\ nodes = Fresh.nodes
    /\ links = Fresh.links
    /\ connectedPairs = Fresh.connectedPairs
    /\ interactionLog = Fresh.interactionLog
    /\ uniqueCounterpartiesSet = Fresh.uniqueCounterpartiesSet
    /\ totalTx = Fresh.totalTx
    /\ linkCalls = Fresh.linkCalls
    /\ pairCalls = Fresh.pairCalls
    /\ result = Return(Fresh, <<>>)
    /\ app = NoApp
    /\ fetch = NoFetch

SpecMalformed == InitMalformed /\ [][Next]_vars

-----------------------------------------------------------------------------
(* The same run on histories long enough for one recipient to be paid more *)
(* than five times by two monitored entities: a transaction pays X, or     *)
(* pays B while running the system program and Y                           *)

MaxHubTx == 6

HubBodies == {Body(0, <<X>>, <<>>), Body(0, <<B>>, <<SystemProgram, Y>>)}

InitHub == InitWith({<<A, B>>, <<C, A, B>>}, HubBodies, MaxHubTx, OverlapConfigs)

SpecHub == InitHub /\ [][Next]_vars

-----------------------------------------------------------------------------
(* The registry on its own: addLink and recordPair called with any         *)
(* arguments, in any order, on the registry of three monitored entities    *)

MaxLinkCalls == 3
MaxPairCalls == 3

InitRegistry ==
    /\ inputAddresses = <<A, B, C>>
    /\ inputs = [addr \in {A, B, C} |-> <<>>]
    /\ config \in OverlapConfigs
    /\ pc = "registry"
    /\ cursor = 1
    /\ nodes = InitializeInputNodes(inputAddresses, inputs).nodes
    /\ links = Fresh.links
    /\ connectedPairs = Fresh.connectedPairs
    /\ interactionLog = Fresh.interactionLog
    /\ uniqueCounterpartiesSet = Fresh.uniqueCounterpartiesSet
    /\ totalTx = Fresh.totalTx
    /\ linkCalls = Fresh.linkCalls
    /\ pairCalls = Fresh.pairCalls
    /\ result = Return(Fresh, <<>>)
    /\ app = NoApp
    /\ fetch = NoFetch

\* the weight each call site of addLink passes with each type
WeightOf(type) ==
    CASE type = DIRECT -> DirectWeight
      [] type = TIME_PROXIMATE -> TimeWeight
      [] type = MIDDLEMAN -> MiddlemanWeight
      [] OTHER -> SharedWeight

\* the score each call site of recordPair passes with each type
ScoreOf(type) ==
    CASE type = DIRECT -> DirectScore
      [] type = TIME_PROXIMATE -> TimeScore
      [] type = MIDDLEMAN -> MiddlemanScore
      [] OTHER -> SharedScore

CallAddLink ==
    /\ pc = "registry"
    /\ Len(linkCalls) < MaxLinkCalls
    /\ \E source \in {A, X}, target \in {A, X}, type \in ConnectionType :
          links' = addLink(Eng, source, target, type, WeightOf(type), "").links
          /\ linkCalls' = addLink(Eng, source, target, type, WeightOf(type), "").linkCalls
    /\ UNCHANGED <<inputAddresses, inputs, config, pc, cursor, nodes, connectedPairs,
                   interactionLog, uniqueCounterpartiesSet, totalTx, pairCalls, result,
                   app, fetch>>

PairArgs == {<<A, B>>, <<B, A>>, <<A, C>>, <<B, C>>}

\* the (score, type) of the four call sites, and one more of a type no call
\* site passes
Evidence ==
    {[score |-> ScoreOf(type), type |-> type] :
        type \in {DIRECT, TIME_PROXIMATE, MIDDLEMAN, SHARED_COUNTERPARTY}}
    \cup {[score |-> MiddlemanScore, type |-> SHARED_PROGRAM]}

CallRecordPair ==
    /\ pc = "registry"
    /\ Len(pairCalls) < MaxPairCalls
    /\ \E ab \in PairArgs, ev \in Evidence :
          LET r == recordPair(Eng, ab[1], ab[2], Reason("call", <<>>, Len(pairCalls) + 1),
                              ev.score, ev.type)
          IN  /\ connectedPairs' = r.connectedPairs
              /\ pairCalls' = r.pairCalls
    /\ UNCHANGED <<inputAddresses, inputs, config, pc, cursor, nodes, links,
                   interactionLog, uniqueCounterpartiesSet, totalTx, linkCalls, result,
                   app, fetch>>

SpecLinks == InitRegistry /\ [][CallAddLink]_vars

SpecPairs == InitRegistry /\ [][CallRecordPair]_vars

-----------------------------------------------------------------------------
(* The Chain Data Provider: fetchTransactionHistory over executeWithFallback. *)
(* What an endpoint answers is the environment's choice.                      *)

RPC_ENDPOINTS == <<"publicnode", "ankr", "extrnode", "mainnet-beta">>

batchSize == 5

\* the cap fetchTransactionHistory puts on the requested limit
LimitCap == 200

\* the code units of the base-58 alphabet: 1-9, A-Z without I and O, a-z
\* without l
Base58 == (49..57) \cup (65..72) \cup (74..78) \cup (80..90) \cup (97..107) \cup (109..122)

\* whether new PublicKey(address) returns; the library's further demand, a
\* decoded length of 32 bytes, is left out for the short ids used here
IsPublicKey(address) ==
    address # <<>> /\ \A i \in DOMAIN address : address[i] \in Base58

InvalidPublicKey == "Invalid Public Key"
TooManyRequests == "429 Too Many Requests"

\* the call, once past new PublicKey(address); attempts and batches are
\* history: what each endpoint tried answered, and how each batch went
FetchStarted(address, limit) ==
    [status |-> "endpoint", address |-> address, effectiveLimit |-> Min(limit, LimitCap),
     endpoint |-> 1, attempts |-> <<>>, sigs |-> <<>>, i |-> 0, parsedTxs |-> <<>>,
     batches |-> <<>>, value |-> <<>>]

\* return parsedTxs, or return []
Resolve(f, list) == [f EXCEPT !.status = "resolved", !.value = list]

\* OnFinalError, had the outer catch let the error through
OnFinalErrorRethrow(f) == [f EXCEPT !.status = "raised"]

\* the outer catch of fetchTransactionHistory
OnFinalError(f) == Resolve(f, <<>>)

\* the catch of executeWithFallback, and the throw after its loop
OnEndpointError(f, errorMsg) ==
    LET f1 == [f EXCEPT !.attempts = Append(@, errorMsg)]
    IN  IF errorMsg = InvalidPublicKey THEN OnFinalError(f1)
        ELSE IF f.endpoint = Len(RPC_ENDPOINTS) THEN OnFinalError(f1)
        ELSE [f1 EXCEPT !.endpoint = @ + 1]

\* sigStrings.slice(i, i + batchSize)
Batch(f) == SubSeq(f.sigs, f.i + 1, Min(f.i + batchSize, Len(f.sigs)))

\* the end of one turn of the batch loop, and the return after the last
NextBatch(f) ==
    LET f1 == [f EXCEPT !.i = @ + batchSize]
    IN  IF f1.i < Len(f1.sigs) THEN f1 ELSE Resolve(f1, f1.parsedTxs)

\* the most signatures an endpoint lists for one address
MaxSignatures == 6

SignatureCounts == {0, 1, MaxSignatures}

\* what the chain holds for an address with n transactions: n calls of the
\* system program or, for a single transaction, a transfer to B
ChainBodies(n) ==
    {Body(0, <<>>, <<SystemProgram>>)} \cup (IF n = 1 THEN {Body(0, <<B>>, <<>>)} ELSE {})

-----------------------------------------------------------------------------
(* The App component: handleAnalyze, between its awaits *)

AnalysisFailed == "An error occurred during analysis."

AppIdle(apiKey) ==
    [at |-> "idle", k |-> 1, isLoading |-> FALSE, status |-> "", graphData |-> <<>>,
     summary |-> <<>>, aiInsight |-> <<>>, notice |-> <<>>, apiKey |-> apiKey,
     attempts |-> <<>>]

\* the catch block of handleAnalyze
Catch(a) == [a EXCEPT !.notice = <<AnalysisFailed>>]

\* the finally block of handleAnalyze
Finally(a) == [a EXCEPT !.isLoading = FALSE, !.status = "", !.at = "ended"]

\* from the call of analyzeConnections to the next await, or to the end
Analysed(a, out) ==
    LET a1 == [a EXCEPT !.graphData = <<out.graph>>, !.summary = <<out.summary>>]
    IN  IF a.apiKey /\ Len(out.summary.connectedPairs) > 0
        THEN [a1 EXCEPT !.status = "Generating AI insights...", !.at = "insight"]
        ELSE IF ~a.apiKey
        THEN Finally([a1 EXCEPT !.aiInsight = <<"AI Insights unavailable: Missing API Key.">>])
        ELSE Finally([a1 EXCEPT !.aiInsight = <<"No strong connections found to analyze.">>])

\* an unusable address: 0 is not in the base-58 alphabet
Zero == <<48>>

AppAddresses == {<<A, B>>, <<A, Zero>>}

AppConfigs == [maxTransactions : {5, 50}, timeWindowSeconds : {60}, includePrograms : {TRUE}]

InitApp ==
    /\ inputAddresses \in AppAddresses
    /\ config \in AppConfigs
    /\ inputs = <<>>
    /\ pc = "app"
    /\ cursor = 1
    /\ nodes = Fresh.nodes
    /\ links = Fresh.links
    /\ connectedPairs = Fresh.connectedPairs
    /\ interactionLog = Fresh.interactionLog
    /\ uniqueCounterpartiesSet = Fresh.uniqueCounterpartiesSet
    /\ totalTx = Fresh.totalTx
    /\ linkCalls = Fresh.linkCalls
    /\ pairCalls = Fresh.pairCalls
    /\ result = Return(Fresh, <<>>)
    /\ app \in {AppIdle(apiKey) : apiKey \in BOOLEAN}
    /\ fetch = NoFetch

EngineIdle ==
    UNCHANGED <<inputAddresses, config, pc, cursor, nodes, links, connectedPairs,
                interactionLog, uniqueCounterpartiesSet, totalTx, linkCalls, pairCalls>>

handleAnalyze ==
    /\ app.at = "idle"
    /\ app' = [app EXCEPT !.at = "fetch", !.k = 1, !.isLoading = TRUE, !.graphData = <<>>,
                          !.summary = <<>>, !.aiInsight = <<>>]
    /\ inputs' = <<>>
    /\ UNCHANGED <<result, fetch>>
    /\ EngineIdle

fetchTransactionHistory ==
    /\ app.at = "fetch"
    /\ fetch.status = "idle"
    /\ LET address == inputAddresses[app.k]
           f == FetchStarted(address, config.maxTransactions)
       IN  fetch' = IF IsPublicKey(address) THEN f ELSE OnFinalError(f)
    /\ app' = [app EXCEPT !.status = "Fetching"]
    /\ UNCHANGED <<inputs, result>>
    /\ EngineIdle

EndpointFails ==
    /\ fetch.status = "endpoint"
    /\ \E errorMsg \in {InvalidPublicKey, TooManyRequests} :
          fetch' = OnEndpointError(fetch, errorMsg)
    /\ UNCHANGED <<inputs, result, app>>
    /\ EngineIdle

GetSignatures ==
    /\ fetch.status = "endpoint"
    /\ \E n \in SignatureCounts : \E body \in ChainBodies(n) :
          /\ n <= fetch.effectiveLimit
          /\ LET f == [fetch EXCEPT !.attempts = Append(@, "ok"),
                                   !.sigs = History(fetch.address, [i \in 1..n |-> body])]
             IN  fetch' = IF n = 0 THEN Resolve(f, f.parsedTxs) ELSE [f EXCEPT !.status = "batch"]
    /\ UNCHANGED <<inputs, result, app>>
    /\ EngineIdle

BatchParsed ==
    /\ fetch.status = "batch"
    /\ \E outcome \in {"parsed", "first is null"} :
          LET infos == IF outcome = "parsed" THEN Batch(fetch) ELSE Tail(Batch(fetch))
          IN  fetch' = NextBatch([fetch EXCEPT !.parsedTxs = @ \o infos,
                                              !.batches = Append(@, outcome)])
    /\ UNCHANGED <<inputs, result, app>>
    /\ EngineIdle

BatchFails ==
    /\ fetch.status = "batch"
    /\ fetch' = NextBatch([fetch EXCEPT !.batches = Append(@, "failed")])
    /\ UNCHANGED <<inputs, result, app>>
    /\ EngineIdle

AwaitFetch ==
    /\ app.at = "fetch"
    /\ fetch.status \in {"resolved", "raised"}
    /\ LET txData == (fetch.address :> fetch.value) @@ inputs
           a == [app EXCEPT !.attempts = Append(@, fetch.attempts), !.k = @ + 1]
       IN  IF fetch.status = "raised"
           THEN app' = Finally(Catch(a)) /\ UNCHANGED <<inputs, result>>
           ELSE IF app.k < Len(inputAddresses)
           THEN app' = a /\ inputs' = txData /\ UNCHANGED result
           ELSE /\ inputs' = txData
                /\ result' = analyzeConnections(inputAddresses, txData, config)
                /\ app' = Analysed(a, analyzeConnections(inputAddresses, txData, config))
    /\ fetch' = NoFetch
    /\ EngineIdle

\* generateAiInsight resolves to the model's text or to its own error text, or
\* the client's constructor raises
AwaitInsight ==
    /\ app.at = "insight"
    /\ \E outcome \in {"text", "caught", "raised"} :
          app' = Finally(IF outcome = "raised" THEN Catch(app)
                         ELSE [app EXCEPT !.aiInsight = <<outcome>>])
    /\ UNCHANGED <<inputs, result, fetch>>
    /\ EngineIdle

NextApp ==
    \/ handleAnalyze
    \/ fetchTransactionHistory
    \/ EndpointFails
    \/ GetSignatures
    \/ BatchParsed
    \/ BatchFails
    \/ AwaitFetch
    \/ AwaitInsight

SpecApp == InitApp /\ [][NextApp]_vars

-----------------------------------------------------------------------------
(* Properties *)

Output == result.graph
Summary == result.summary
Done == pc = "done"

NodeOf(ns, id) == CHOOSE n \in SeqSet(ns) : n.id = id
HasNode(ns, id) == \E n \in SeqSet(ns) : n.id = id

\* C1: every monitored entity is a node of category INPUT, in the registry
\* from step 1 on and in the returned graph, whatever was upserted or pruned.
C1_InputsAlwaysInputNodes ==
    /\ pc # "init" =>
          \A addr \in SeqSet(inputAddresses) :
              MapHas(nodes, addr) /\ MapGet(nodes, addr).group = "input"
    /\ Done =>
          \A addr \in SeqSet(inputAddresses) :
              HasNode(Output.nodes, addr) /\ NodeOf(Output.nodes, addr).group = "input"

\* a returned graph from which pruning removed nodes and in which a monitored
\* entity with no transactions, and no link, is still a node
C1_Witness ==
    /\ Done
    /\ Len(Output.nodes) < Len(nodes)
    /\ \E addr \in SeqSet(inputAddresses) :
          /\ inputs[addr] = <<>>
          /\ \A l \in SeqSet(Output.links) : l.source # addr /\ l.target # addr
          /\ HasNode(Output.nodes, addr)

LinkKeys(ls) == {PairKey(l.source, l.target) : l \in SeqSet(ls)}

Swapped(order) == <<order[2], order[1]>>

\* C2: with two monitored entities, the returned links have the same canonical
\* keys whichever of the two the input map lists first.
C2_OrderIndependentLinkKeys ==
    (Done /\ Len(inputAddresses) = 2) =>
        LinkKeys(Output.links)
            = LinkKeys(analyzeConnections(Swapped(inputAddresses), inputs, config).graph.links)

LastLinkCall == linkCalls'[Len(linkCalls')]

\* C3: an addLink call changes a stored link type only when the call's type is
\* DIRECT or MIDDLEMAN; a link that is DIRECT or MIDDLEMAN keeps its type
\* under every call of a weaker type.
C3_MonotonicLinkUpgrade ==
    [][\A i \in DOMAIN links :
          /\ links'[i].val.type # links[i].val.type => LastLinkCall.type \in StrongTypes
          /\ (links[i].val.type \in StrongTypes /\ LastLinkCall.type \notin StrongTypes)
                => links'[i].val.type = links[i].val.type]_vars

\* a link that became DIRECT, then took a TIME_PROXIMATE observation in the
\* other endpoint order, and is still DIRECT with both weights added
C3_Witness ==
    /\ Len(linkCalls) = 2
    /\ linkCalls[1] = [source |-> A, target |-> X, type |-> DIRECT, weight |-> DirectWeight]
    /\ linkCalls[2] = [source |-> X, target |-> A, type |-> TIME_PROXIMATE,
                       weight |-> TimeWeight]
    /\ MapGet(links, PairKey(A, X)).type = DIRECT
    /\ MapGet(links, PairKey(A, X)).value = DirectWeight + TimeWeight

\* C4: node ids are unique in the registry and in the returned graph, and a
\* node's category changes only from COUNTERPARTY to MIDDLEMAN.
C4_OnlyCounterpartyBecomesMiddleman ==
    /\ [](\A i, j \in DOMAIN nodes : nodes[i].key = nodes[j].key => i = j)
    /\ [](\A i, j \in DOMAIN Output.nodes :
             Output.nodes[i].id = Output.nodes[j].id => i = j)
    /\ [][\A i \in DOMAIN nodes :
             nodes'[i].val.group # nodes[i].val.group
                => nodes[i].val.group = "counterparty"
                   /\ nodes'[i].val.group = "middleman"]_vars

PairKeyOf(call) == PairKey(call.addressA, call.addressB)

CallsFor(key) ==
    LET Same(call) == PairKeyOf(call) = key
    IN  SelectSeq(pairCalls, Same)

\* the earliest call of the greatest score
Strongest(calls) ==
    calls[CHOOSE i \in DOMAIN calls :
             /\ \A j \in DOMAIN calls : calls[j].score <= calls[i].score
             /\ \A j \in 1..(i - 1) : calls[j].score < calls[i].score]

\* C5: the record stored for a pair is the earliest call, among those of the
\* greatest score made for that pair in either argument order.
C5_StoredPairIsEarliestStrongest ==
    /\ \A i \in DOMAIN pairCalls : MapHas(connectedPairs, PairKeyOf(pairCalls[i]))
    /\ \A i \in DOMAIN connectedPairs :
          /\ CallsFor(connectedPairs[i].key) # <<>>
          /\ connectedPairs[i].val = Strongest(CallsFor(connectedPairs[i].key))

\* three calls for one pair: a weaker one, then two of the same greater score
\* in opposite argument orders and of different types; the second is stored
C5_Witness ==
    /\ Len(pairCalls) = 3
    /\ <<pairCalls[1].addressA, pairCalls[1].addressB>> = <<A, B>>
    /\ <<pairCalls[2].addressA, pairCalls[2].addressB>> = <<B, A>>
    /\ <<pairCalls[3].addressA, pairCalls[3].addressB>> = <<A, B>>
    /\ pairCalls[1].score < pairCalls[2].score
    /\ pairCalls[2].score = pairCalls[3].score
    /\ pairCalls[2].type # pairCalls[3].type
    /\ MapGet(connectedPairs, PairKey(A, B)) = pairCalls[2]

DetectorTypes == {DIRECT, TIME_PROXIMATE, MIDDLEMAN, SHARED_COUNTERPARTY}

\* pairs with the evidence of its i-th record replaced by the detectors'
\* evidence of type `type`
WithEvidence(pairs, i, type) ==
    [pairs EXCEPT ![i].type = type, ![i].score = ScoreOf(type),
                  ![i].reason = Reason("replaced", <<>>, 0)]

\* C6: replacing one retained pair's evidence by detector evidence of a
\* strictly higher score never lowers the confidence score.
C6_ConfidenceMonotonicInScore ==
    Done =>
        \A i \in DOMAIN Summary.connectedPairs : \A type \in DetectorTypes :
            ScoreOf(type) > Summary.connectedPairs[i].score
                => calculateConfidence(WithEvidence(Summary.connectedPairs, i, type))
                      >= Summary.confidenceScore

Count(pairs, types) == Cardinality({i \in DOMAIN pairs : pairs[i].type \in types})

\* the sum of the category weights, counted category by category
WeightSum(pairs) ==
    40 * Count(pairs, {DIRECT}) + 30 * Count(pairs, {MIDDLEMAN})
    + 20 * Count(pairs, {TIME_PROXIMATE}) + 10 * Count(pairs, {SHARED_COUNTERPARTY})
    + 5 * Count(pairs, ConnectionType \ DetectorTypes)

Without(pairs, i) == SubSeq(pairs, 1, i - 1) \o SubSeq(pairs, i + 1, Len(pairs))

RetainedPairs == Return(Eng, inputAddresses).summary.connectedPairs
Confidence == Return(Eng, inputAddresses).summary.confidenceScore

\* C7: the confidence score is min(100, sum of the category weights of the
\* retained pair records); it is in 0..100, 0 for no record, and never below
\* the score of the same records with one left out.
C7_ConfidenceIsCappedWeightSum ==
    /\ Confidence = Min(100, WeightSum(RetainedPairs))
    /\ Confidence \in 0..100
    /\ RetainedPairs = <<>> => Confidence = 0
    /\ \A i \in DOMAIN RetainedPairs :
          calculateConfidence(Without(RetainedPairs, i)) <= Confidence

\* three retained DIRECT records: the sum, 120, is over the cap
C7_Witness ==
    /\ Len(RetainedPairs) = 3
    /\ WeightSum(RetainedPairs) = 120
    /\ Confidence = 100

\* Scenario A: two monitored entities; the one has a single transaction, with
\* the other among its recipients; the other has none
ScenarioA(a, b) ==
    /\ SeqSet(inputAddresses) = {a, b}
    /\ a # b
    /\ Len(inputs[a]) = 1
    /\ Includes(inputs[a][1].recipients, b)
    /\ inputs[b] = <<>>

DirectLinks == {l \in SeqSet(Output.links) : l.type = DIRECT}

\* C8: in scenario A the returned graph has one DIRECT link, between the two
\* entities and of weight 5; the summary has one pair record, for the two
\* entities, of score 50 and category DIRECT; the confidence score is 40.
C8_ScenarioA ==
    \A a, b \in SeqSet(inputAddresses) :
        (Done /\ ScenarioA(a, b)) =>
            /\ \E l \in DirectLinks :
                  /\ DirectLinks = {l}
                  /\ {l.source, l.target} = {a, b}
                  /\ l.value = Halves(5)
            /\ Len(Summary.connectedPairs) = 1
            /\ {Summary.connectedPairs[1].addressA, Summary.connectedPairs[1].addressB} = {a, b}
            /\ Summary.connectedPairs[1].score = 50
            /\ Summary.connectedPairs[1].type = DIRECT
            /\ Summary.confidenceScore = 40

\* scenario A has run to its end, with the sender listed second
C8_Witness == Done /\ ScenarioA(A, B) /\ inputAddresses = <<B, A>>

\* Scenario B: three monitored entities, each with one transaction whose only
\* recipient is the non-monitored x, all within 10 seconds; window 60
ScenarioB(x) ==
    /\ Len(inputAddresses) = 3
    /\ ~Includes(inputAddresses, x)
    /\ config.timeWindowSeconds = 60
    /\ \A a \in SeqSet(inputAddresses) :
          Len(inputs[a]) = 1 /\ inputs[a][1].recipients = <<x>>
    /\ \A a, b \in SeqSet(inputAddresses) :
          Abs(inputs[a][1].blockTime - inputs[b][1].blockTime) <= 10

LinksTo(x) == {l \in SeqSet(Output.links) : x \in {l.source, l.target}}

\* what scenario B does to the graph: x is a MIDDLEMAN node, and each of the
\* three monitored entities has a MIDDLEMAN link to x
ScenarioBGraph(x) ==
    /\ HasNode(Output.nodes, x)
    /\ NodeOf(Output.nodes, x).group = "middleman"
    /\ \A a \in SeqSet(inputAddresses) :
          \E l \in LinksTo(x) : a \in {l.source, l.target} /\ l.type = MIDDLEMAN
    /\ \A l \in LinksTo(x) : l.type = MIDDLEMAN

PairsOf(pairs) == {{pairs[i].addressA, pairs[i].addressB} : i \in DOMAIN pairs}

RECURSIVE Touchers(_, _)
Touchers(order, e) ==
    IF order = <<>> THEN <<>>
    ELSE (IF \E i \in DOMAIN inputs[Head(order)] :
                Includes(inputs[Head(order)][i].recipients, e)
          THEN <<Head(order)>> ELSE <<>>)
         \o Touchers(Tail(order), e)

LastPairCall == pairCalls'[Len(pairCalls')]

\* C10: the pair for which the Hub/Middleman pass records evidence on an
\* entity is the first two monitored entities, in input order, that touched it.
C10_HubPairIsFirstEncountered ==
    [][(pc = "hub" /\ Len(pairCalls') = Len(pairCalls) + 1) =>
          LET first == Touchers(inputAddresses, interactionLog[cursor].key)
          IN  {LastPairCall.addressA, LastPairCall.addressB} = {first[1], first[2]}]_vars

\* the transactions of m's history with e among their recipients
InteractionsWith(m, e) ==
    {i \in DOMAIN inputs[m] : Includes(inputs[m][i].recipients, e)}

\* some interaction of m1 with e and some interaction of m2 with e are at most
\* the window apart
Proximate(m1, m2, e) ==
    \E i \in InteractionsWith(m1, e), j \in InteractionsWith(m2, e) :
        Abs(inputs[m1][i].blockTime - inputs[m2][j].blockTime) <= config.timeWindowSeconds

TimeLinkCall(m, e) ==
    \E i \in DOMAIN linkCalls :
        linkCalls[i] = [source |-> m, target |-> e, type |-> TIME_PROXIMATE,
                        weight |-> Halves(2)]

TimePairCall(m1, m2, e) ==
    \E i \in DOMAIN pairCalls :
        /\ {pairCalls[i].addressA, pairCalls[i].addressB} = {m1, m2}
        /\ pairCalls[i].type = TIME_PROXIMATE
        /\ pairCalls[i].score = 30
        /\ pairCalls[i].reason.ref = SliceHead(e, 4)

TimePassOver == pc \in {"hub", "prune", "done"}

Externals == {X, Y}

\* C11: once the Time-Proximate pass is over, for an external e and two
\* distinct monitored m1, m2: the weight-2 TIME_PROXIMATE link calls on m1-e
\* and m2-e together with the score-30 TIME_PROXIMATE pair call for (m1, m2)
\* via e have been made if and only if some interaction of m1 with e and some
\* of m2 with e are at most timeWindowSeconds apart; two interactions six
\* years apart under a window of 300 s give no such pair call.
C11_TimeWindowGating ==
    TimePassOver =>
        \A e \in Externals \ SeqSet(inputAddresses) :
        \A m1, m2 \in SeqSet(inputAddresses) :
            m1 # m2 =>
                /\ (TimeLinkCall(m1, e) /\ TimeLinkCall(m2, e) /\ TimePairCall(m1, m2, e))
                       <=> Proximate(m1, m2, e)
                /\ TimePairCall(m1, m2, e) <=> Proximate(m1, m2, e)
                /\ (/\ config.timeWindowSeconds = 300
                    /\ \A i \in InteractionsWith(m1, e), j \in InteractionsWith(m2, e) :
                          Abs(inputs[m1][i].blockTime - inputs[m2][j].blockTime) = 189216000)
                       => ~TimePairCall(m1, m2, e)

\* under a window of 300 s, A paid X at 0 s, B exactly 300 s later and C six
\* years later: the run is over, with evidence via X for (A, B) and none for
\* (A, C) or (B, C)
C11_Witness ==
    /\ Done
    /\ config.timeWindowSeconds = 300
    /\ inputAddresses = <<C, A, B>>
    /\ \E ta \in {0}, tb \in {300}, tc \in {189216000} :
          /\ Len(inputs[A]) = 1 /\ inputs[A][1].recipients = <<X>> /\ inputs[A][1].blockTime = ta
          /\ Len(inputs[B]) = 1 /\ inputs[B][1].recipients = <<X>> /\ inputs[B][1].blockTime = tb
          /\ Len(inputs[C]) = 1 /\ inputs[C][1].recipients = <<X>> /\ inputs[C][1].blockTime = tc
    /\ TimePairCall(A, B, X)
    /\ ~TimePairCall(A, C, X)
    /\ ~TimePairCall(B, C, X)

\* some transaction of the input names a program the engine does not ignore
ProgramActivity ==
    \E m \in SeqSet(inputAddresses) : \E i \in DOMAIN inputs[m] :
        \E j \in DOMAIN inputs[m][i].programIds :
            inputs[m][i].programIds[j] \notin IGNORED_PROGRAMS

\* C12: with includePrograms = false, no node of category PROGRAM and no link
\* of category SHARED_PROGRAM is ever in the registry or in the returned
\* graph, whatever program ids the transactions carry.
C12_NoProgramsWhenExcluded ==
    ~config.includePrograms =>
        /\ \A i \in DOMAIN nodes : nodes[i].val.group # "program"
        /\ \A i \in DOMAIN links : links[i].val.type # SHARED_PROGRAM
        /\ \A i \in DOMAIN linkCalls : linkCalls[i].type # SHARED_PROGRAM
        /\ \A n \in SeqSet(Output.nodes) : n.group # "program"
        /\ \A l \in SeqSet(Output.links) : l.type # SHARED_PROGRAM

\* programs excluded, on an input with program activity: the run is over and
\* the id named as a program is in the returned graph, as a shared recipient
C12_Witness ==
    /\ Done
    /\ ~config.includePrograms
    /\ ProgramActivity
    /\ HasNode(Output.nodes, Y)
    /\ Output.links # <<>>

\* C13: every pair record of the summary has its two entities in sorted order
\* (the first not after the second in the order of the key), and no two
\* records of the summary are for the same unordered pair.
C13_SummaryPairsSortedAndUnique ==
    Done =>
        /\ \A i \in DOMAIN Summary.connectedPairs :
              ~LexLess(Summary.connectedPairs[i].addressB, Summary.connectedPairs[i].addressA)
        /\ \A i, j \in DOMAIN Summary.connectedPairs :
              {Summary.connectedPairs[i].addressA, Summary.connectedPairs[i].addressB}
                 = {Summary.connectedPairs[j].addressA, Summary.connectedPairs[j].addressB}
                 => i = j

Malformed(tx) == tx.sender = Missing

\* the input map without its malformed records
WellFormedOnly(inp) ==
    LET WellFormed(tx) == ~Malformed(tx)
    IN  [addr \in DOMAIN inp |-> SelectSeq(inp[addr], WellFormed)]

RecordCount == SumLen(inputAddresses, inputs)

\* C14: a record whose sender is missing is skipped: the returned graph, pair
\* records, confidence and counterparty count are those of the same input
\* without its malformed records, and totalTransactionsScanned counts every
\* record, the malformed included.
C14_MalformedRecordsSkipped ==
    Done =>
        LET clean == analyzeConnections(inputAddresses, WellFormedOnly(inputs), config)
        IN  /\ Output = clean.graph
            /\ Summary.connectedPairs = clean.summary.connectedPairs
            /\ Summary.confidenceScore = clean.summary.confidenceScore
            /\ Summary.uniqueCounterparties = clean.summary.uniqueCounterparties
            /\ Summary.totalTransactionsScanned = RecordCount

Ended == app.at = "ended"

\* every endpoint answered the fetch of every monitored entity with an error
NoDataAtAll ==
    /\ Len(app.attempts) = Len(inputAddresses)
    /\ \A i \in DOMAIN app.attempts :
          /\ Len(app.attempts[i]) = Len(RPC_ENDPOINTS)
          /\ \A e \in DOMAIN app.attempts[i] : app.attempts[i][e] # "ok"

\* C15: when handleAnalyze has ended the loading flag is cleared, and if the
\* fetch of every monitored entity failed on every RPC endpoint the user has
\* been shown the analysis-failed notice.
C15_NoDataSurfacesNotice ==
    Ended =>
        /\ ~app.isLoading
        /\ NoDataAtAll => app.notice = <<AnalysisFailed>>

Resolved == fetch.status = "resolved"

\* the records of the batches that did not fail, a null transaction left out
RECURSIVE Delivered(_, _)
Delivered(sigs, outcomes) ==
    IF outcomes = <<>> THEN <<>>
    ELSE LET batch == SubSeq(sigs, 1, Min(5, Len(sigs)))
             rest == SubSeq(sigs, Len(batch) + 1, Len(sigs))
         IN  (CASE Head(outcomes) = "parsed" -> batch
                [] Head(outcomes) = "first is null" -> Tail(batch)
                [] OTHER -> <<>>)
             \o Delivered(rest, Tail(outcomes))

\* C16: fetchTransactionHistory never raises; it resolves to the empty list
\* for an address that is no public key (no endpoint is tried), when every
\* endpoint fails, and when an endpoint reports an invalid public key (no
\* further endpoint is tried); once an endpoint lists the signatures every
\* batch is attempted, and the call resolves to the records of the batches
\* that did not fail.
C16_ProviderNeverRaises ==
    /\ fetch.status # "raised"
    /\ Resolved =>
          /\ ~IsPublicKey(fetch.address) => fetch.value = <<>> /\ fetch.attempts = <<>>
          /\ (\A e \in DOMAIN fetch.attempts : fetch.attempts[e] # "ok") => fetch.value = <<>>
          /\ \A e \in DOMAIN fetch.attempts :
                fetch.attempts[e] = InvalidPublicKey
                   => fetch.value = <<>> /\ e = Len(fetch.attempts)
          /\ (\E e \in DOMAIN fetch.attempts : fetch.attempts[e] = "ok") =>
                /\ 5 * Len(fetch.batches) >= Len(fetch.sigs)
                /\ 5 * Len(fetch.batches) < Len(fetch.sigs) + 5
                /\ fetch.value = Delivered(fetch.sigs, fetch.batches)

\* the first endpoint failed, the second listed more signatures than one
\* batch holds, the first batch failed and the second was parsed: the call
\* resolved to the records of the second batch
C16_Witness ==
    /\ Resolved
    /\ fetch.attempts = <<TooManyRequests, "ok">>
    /\ Len(fetch.sigs) > 5
    /\ fetch.batches = <<"failed", "parsed">>
    /\ fetch.value = SubSeq(fetch.sigs, 6, Len(fetch.sigs))
    /\ fetch.value # <<>>

NewLinkCalls == SubSeq(linkCalls', Len(linkCalls) + 1, Len(linkCalls'))
NewPairCalls == SubSeq(pairCalls', Len(pairCalls) + 1, Len(pairCalls'))

InputsOf(entries) == {entries[i].input : i \in DOMAIN entries}

HubTypes == {MIDDLEMAN, SHARED_COUNTERPARTY}

\* the hub pass has visited every entity of the log
HubPassOver == pc \in {"prune", "done"}

\* C17: the Hub/Middleman pass, on an entity E with n log entries of d
\* distinct monitored entities: for d < 2 nothing; for d > 2 or n > 5 E's node
\* becomes MIDDLEMAN, each of the d entities gets one MIDDLEMAN link call of
\* weight 3 to E, and one pair call of score 20 and category MIDDLEMAN is
\* made; otherwise the nodes are unchanged, no link call is made and one
\* pair call of score 10 and category SHARED_COUNTERPARTY is made.  One pair
\* call per entity with d >= 2 is all the hub evidence of a run.
C17_HubClassification ==
    /\ [](HubPassOver =>
             Cardinality({i \in DOMAIN pairCalls : pairCalls[i].type \in HubTypes})
                = Cardinality({i \in DOMAIN interactionLog :
                                  Cardinality(InputsOf(interactionLog[i].val)) >= 2}))
    /\ [][pc = "hub" =>
             LET E == interactionLog[cursor].key
                 n == Len(interactionLog[cursor].val)
                 ms == InputsOf(interactionLog[cursor].val)
                 d == Cardinality(ms)
             IN  IF d < 2
                 THEN NewLinkCalls = <<>> /\ NewPairCalls = <<>> /\ nodes' = nodes
                 ELSE IF d > 2 \/ n > 5
                 THEN /\ MapGet(nodes', E).group = "middleman"
                      /\ Len(NewLinkCalls) = d
                      /\ \A m \in ms :
                            \E i \in DOMAIN NewLinkCalls :
                                NewLinkCalls[i] = [source |-> m, target |-> E,
                                                   type |-> MIDDLEMAN, weight |-> Halves(3)]
                      /\ Len(NewPairCalls) = 1
                      /\ NewPairCalls[1].score = 20
                      /\ NewPairCalls[1].type = MIDDLEMAN
                      /\ {NewPairCalls[1].addressA, NewPairCalls[1].addressB} \subseteq ms
                      /\ NewPairCalls[1].addressA # NewPairCalls[1].addressB
                 ELSE /\ nodes' = nodes
                      /\ NewLinkCalls = <<>>
                      /\ Len(NewPairCalls) = 1
                      /\ NewPairCalls[1].score = 10
                      /\ NewPairCalls[1].type = SHARED_COUNTERPARTY
                      /\ {NewPairCalls[1].addressA, NewPairCalls[1].addressB} = ms]_vars

\* the pass is over on a log where X was paid six times by two monitored
\* entities: X is a MIDDLEMAN node and the two have MIDDLEMAN evidence
C17_Witness ==
    /\ HubPassOver
    /\ \E i \in DOMAIN interactionLog :
          /\ interactionLog[i].key = X
          /\ Len(interactionLog[i].val) > 5
          /\ Cardinality(InputsOf(interactionLog[i].val)) = 2
    /\ MapGet(nodes, X).group = "middleman"
    /\ \E i \in DOMAIN pairCalls : pairCalls[i].type = MIDDLEMAN /\ pairCalls[i].score = 20

Monitored(id) == Includes(inputAddresses, id)

RegistryLinks == {links[i].val : i \in DOMAIN links}
RegistryNodes == {nodes[i].val : i \in DOMAIN nodes}

\* the distinct monitored entities in the interaction log of id
Interactors(id) ==
    UNION {InputsOf(interactionLog[i].val) :
              i \in {j \in DOMAIN interactionLog : interactionLog[j].key = id}}

PrunedIn(x) ==
    \/ \E n \in RegistryNodes : n.id = x /\ n.group = "program"
    \/ Cardinality(Interactors(x)) >= 2

\* C18: of the registry's links, one between two monitored entities is
\* returned; one with a non-monitored endpoint x is returned if and only if
\* x is a PROGRAM node or x's interaction log has at least 2 distinct
\* monitored entities; a non-monitored node is returned if and only if a
\* returned link references it.  Nothing else is returned.
C18_PruningRule ==
    Done =>
        /\ SeqSet(Output.links) \subseteq RegistryLinks
        /\ SeqSet(Output.nodes) \subseteq RegistryNodes
        /\ \A l \in RegistryLinks :
              /\ (Monitored(l.source) /\ Monitored(l.target)) => l \in SeqSet(Output.links)
              /\ \A x \in {l.source, l.target} :
                    ~Monitored(x) => (l \in SeqSet(Output.links) <=> PrunedIn(x))
        /\ \A n \in RegistryNodes :
              ~Monitored(n.id) =>
                  (n \in SeqSet(Output.nodes)
                      <=> \E l \in SeqSet(Output.links) : n.id \in {l.source, l.target})

\* a returned graph that kept the links to a recipient of two monitored
\* entities and dropped the link, and the node, of a recipient of one
C18_Witness ==
    /\ Done
    /\ \E l \in SeqSet(Output.links) :
          ~Monitored(l.target) /\ Cardinality(Interactors(l.target)) = 2
    /\ \E l \in RegistryLinks :
          /\ l \notin SeqSet(Output.links)
          /\ Cardinality(Interactors(l.target)) = 1
          /\ ~HasNode(Output.nodes, l.target)

\* the config with programs included or not, the other way round
ProgramsFlipped == [config EXCEPT !.includePrograms = ~@]

\* C19: the returned summary (pair records, confidence score, transactions
\* scanned, counterparty count) is the one the same input gives with
\* includePrograms the other way round, and every entry of the interaction
\* log comes from a transaction of its monitored entity that has the logged
\* id among its recipients, never from a program id.
C19_ProgramsNeverReachSummary ==
    /\ Done => Summary = analyzeConnections(inputAddresses, inputs, ProgramsFlipped).summary
    /\ \A i \in DOMAIN interactionLog : \A j \in DOMAIN interactionLog[i].val :
          LET entry == interactionLog[i].val[j]
          IN  \E t \in DOMAIN inputs[entry.input] :
                  /\ inputs[entry.input][t].signature = entry.tx
                  /\ Includes(inputs[entry.input][t].recipients, interactionLog[i].key)

\* programs included, on an input where two monitored entities ran the same
\* program: the program is a node of the returned graph, and the summary has
\* a pair record from elsewhere
C19_Witness ==
    /\ Done
    /\ config.includePrograms
    /\ \E n \in SeqSet(Output.nodes) : n.group = "program" /\ ~Monitored(n.id)
    /\ \E m1, m2 \in SeqSet(inputAddresses) :
          /\ m1 # m2
          /\ \E l \in SeqSet(Output.links) : l.source = m1 /\ l.type = SHARED_PROGRAM
          /\ \E l \in SeqSet(Output.links) : l.source = m2 /\ l.type = SHARED_PROGRAM
    /\ Summary.connectedPairs # <<>>

\* the calls made so far between the two endpoints of l, in either order
CallsOn(l) ==
    LET OnLink(call) == call.source # call.target
                        /\ {call.source, call.target} = {l.source, l.target}
    IN  SelectSeq(linkCalls, OnLink)

RECURSIVE SumWeights(_)
SumWeights(calls) ==
    IF calls = <<>> THEN 0 ELSE Head(calls).weight + SumWeights(Tail(calls))

\* C20: the weight of every link is the sum of the weights of all addLink
\* calls made so far between its two endpoints, in either order; every call
\* between two different ids has its link; no call lowers a weight or
\* removes a link, and a call with source = target changes no link.
C20_LinkWeightCumulative ==
    /\ [](/\ \A i \in DOMAIN links : links[i].val.value = SumWeights(CallsOn(links[i].val))
          /\ \A j \in DOMAIN linkCalls :
                linkCalls[j].source # linkCalls[j].target
                   => MapHas(links, PairKey(linkCalls[j].source, linkCalls[j].target))
          /\ \A i, j \in DOMAIN links :
                {links[i].val.source, links[i].val.target}
                   = {links[j].val.source, links[j].val.target} => i = j)
    /\ [][/\ \A i \in DOMAIN links :
                links'[i].key = links[i].key /\ links'[i].val.value >= links[i].val.value
           /\ (Len(linkCalls') > Len(linkCalls) /\ LastLinkCall.source = LastLinkCall.target)
                 => links' = links]_vars

\* a MIDDLEMAN call, then a DIRECT call in the other endpoint order, then a
\* call with both endpoints the same: one link, of the two weights added
C20_Witness ==
    /\ Len(linkCalls) = 3
    /\ linkCalls[1] = [source |-> A, target |-> X, type |-> MIDDLEMAN,
                       weight |-> MiddlemanWeight]
    /\ linkCalls[2] = [source |-> X, target |-> A, type |-> DIRECT, weight |-> DirectWeight]
    /\ linkCalls[3].source = linkCalls[3].target
    /\ Len(links) = 1
    /\ links[1].val.value = MiddlemanWeight + DirectWeight

\* C21: every pair record of the summary relates two distinct monitored
\* entities, also when a monitored entity's own history holds a transaction,
\* signed by someone else, that has the entity among its recipients.
C21_PairsRelateDistinctEntities ==
    Done =>
        \A i \in DOMAIN Summary.connectedPairs :
            /\ Monitored(Summary.connectedPairs[i].addressA)
            /\ Monitored(Summary.connectedPairs[i].addressB)
            /\ Summary.connectedPairs[i].addressA # Summary.connectedPairs[i].addressB

\* C22: both endpoints of every returned link are ids of returned nodes, and
\* no returned link has the same id at both ends.
C22_OutputGraphClosed ==
    Done =>
        \A l \in SeqSet(Output.links) :
            /\ HasNode(Output.nodes, l.source)
            /\ HasNode(Output.nodes, l.target)
            /\ l.source # l.target

\* a returned graph with a link to a non-monitored node, from a run in which
\* addLink was also called with the same id at both ends and in which
\* pruning dropped a node
C22_Witness ==
    /\ Done
    /\ \E l \in SeqSet(Output.links) : ~Monitored(l.target)
    /\ \E i \in DOMAIN linkCalls : linkCalls[i].source = linkCalls[i].target
    /\ Len(Output.nodes) < Len(nodes)

IndexingTypes == {SHARED_COUNTERPARTY, SHARED_PROGRAM}

\* the calls of this step between the two ends of l
NewCallsOn(l) ==
    {i \in DOMAIN NewLinkCalls :
        {NewLinkCalls[i].source, NewLinkCalls[i].target} = {l.source, l.target}}

====
